---- MODULE Spec2Model ----
(***************************************************************************)
(* Model of tools/bepstream/main.go: a reader that follows a length-       *)
(* delimited Build Event Protocol file (streamBEP), decodes one frame at a *)
(* time (streamReader.readDelimitedMessage over protodelim.UnmarshalFrom), *)
(* aggregates every event into buildStats (processEvent) and prints the    *)
(* statistics (buildStats.printSummary).  A writer (the build tool)        *)
(* creates the file and appends the bytes of the frames concurrently.      *)
(*                                                                         *)
(* Time is counted in units of 100ms.  The clock advances only in the      *)
(* time.Sleep calls of the program; every other step takes no time.        *)
(***************************************************************************)
EXTENDS Integers, Sequences, FiniteSets, TLC

\* ------------------------------------------------------------------ bounds
\* longest frame sequence drawn from the Alphabet
MaxFrames == 2
\* the -timeout option, in units of 100ms
Timeout == 2

\* ------------------------------------------------------- program constants
\* the -poll option at its default, 100ms: the unit of time
PollInterval == 1
\* the poll interval of waitForFile, 100ms
WaitPoll == 1
\* binary.MaxVarintLen64
MaxVarintLen64 == 10
\* the zero value of time.Time, the value of startTime and endTime in &buildStats{}
ZeroTime == 0

\* ------------------------------------------------------------------ events
\* A decoded bespb.BuildEvent.  kind is the case of the Payload oneof ("None":
\* no payload, or one this build does not know), idKind the case of Id.Id
\* ("None": Id is nil).  The has* fields say whether a message-typed sub-field
\* is present (a non-nil pointer).  size is the length of the serialized event.
NoEvent ==
    [kind |-> "None", last |-> FALSE, idKind |-> "None", label |-> "",
     uuid |-> "", command |-> "", hasStartTime |-> FALSE, startTime |-> ZeroTime,
     hasExitCode |-> FALSE, exitCode |-> 0, hasFinishTime |-> FALSE,
     finishTime |-> ZeroTime, success |-> FALSE, status |-> "NO_STATUS",
     hasActionSummary |-> FALSE, size |-> 0]

Started(uuid, command, hasTime, t) ==
    [NoEvent EXCEPT !.kind = "Started", !.uuid = uuid, !.command = command,
                    !.hasStartTime = hasTime, !.startTime = t, !.size = 3]

Finished(hasCode, code, hasTime, t) ==
    [NoEvent EXCEPT !.kind = "Finished", !.hasExitCode = hasCode, !.exitCode = code,
                    !.hasFinishTime = hasTime, !.finishTime = t, !.size = 2]

Progress == [NoEvent EXCEPT !.kind = "Progress", !.size = 2]

\* a Progress event that carries 126 bytes of console output: its length
\* prefix takes two bytes
BigProgress == [NoEvent EXCEPT !.kind = "Progress", !.size = 128]

Configured(label) ==
    [NoEvent EXCEPT !.kind = "Configured", !.idKind = "TargetConfigured",
                    !.label = label, !.size = 2]

Completed(label, success) ==
    [NoEvent EXCEPT !.kind = "Completed", !.idKind = "TargetCompleted",
                    !.label = label, !.success = success, !.size = 2]

Action(success) == [NoEvent EXCEPT !.kind = "Action", !.success = success, !.size = 2]

TestResult(label, status) ==
    [NoEvent EXCEPT !.kind = "TestResult", !.idKind = "TestResult",
                    !.label = label, !.status = status, !.size = 2]

TestSummary(label, status) ==
    [NoEvent EXCEPT !.kind = "TestSummary", !.idKind = "TestSummary",
                    !.label = label, !.status = status, !.size = 2]

Aborted == [NoEvent EXCEPT !.kind = "Aborted", !.size = 2]

Configuration == [NoEvent EXCEPT !.kind = "Configuration", !.size = 2]

BuildToolLogs == [NoEvent EXCEPT !.kind = "BuildToolLogs", !.size = 2]

BuildMetrics(hasSummary) ==
    [NoEvent EXCEPT !.kind = "BuildMetrics", !.hasActionSummary = hasSummary, !.size = 2]

\* an event with only an Id of a kind that carries no label
OnlyId == [NoEvent EXCEPT !.idKind = "Progress", !.size = 2]

Last(e) == [e EXCEPT !.last = TRUE, !.size = e.size + 3]

\* the event e with Id left nil
NoId(e) == [e EXCEPT !.idKind = "None", !.label = ""]

\* the event e with an Id of the kind ActionCompleted, which carries a label
\* and is none of the kinds getTargetLabel knows
ActionId(e, label) == [e EXCEPT !.idKind = "ActionCompleted", !.label = label]

\* Every serialized event the writer can produce, apart from the empty one.
EventTable ==
    << Started("X", "build", TRUE, 5),
       Started("Y", "test", FALSE, ZeroTime),
       Finished(TRUE, 0, FALSE, ZeroTime),
       Finished(TRUE, 3, TRUE, 9),
       Finished(TRUE, 1, TRUE, 2),
       Finished(FALSE, 0, TRUE, 9),
       Progress,
       BigProgress,
       Configured("//a:b"),
       Completed("//a:b", TRUE),
       Completed("//a:c", FALSE),
       Action(TRUE),
       Action(FALSE),
       TestResult("//t:t", "PASSED"),
       TestSummary("//t:t", "PASSED"),
       TestSummary("//t:u", "FAILED"),
       TestSummary("//t:v", "FLAKY"),
       Aborted,
       Configuration,
       BuildToolLogs,
       BuildMetrics(TRUE),
       BuildMetrics(FALSE),
       OnlyId,
       NoId(Completed("", TRUE)),
       ActionId(Configured(""), "//a:b"),
       Last(NoEvent),
       Last(Progress),
       Last(Finished(TRUE, 0, TRUE, 9)),
       Last(Finished(FALSE, 0, FALSE, ZeroTime)) >>

\* ------------------------------------------------------------- wire format
\* binary.PutUvarint: little-endian base 128, the high bit of a byte says that
\* another byte follows.
RECURSIVE PutUvarint(_)
PutUvarint(n) ==
    IF n < 128 THEN << n >> ELSE << 128 + (n % 128) >> \o PutUvarint(n \div 128)

Zeros(n) == [i \in 1..n |-> 0]

Code(e) == CHOOSE i \in 1..Len(EventTable) : EventTable[i] = e

\* proto.Marshal of an event: the empty event has an empty encoding; every other
\* event is written as its code followed by the rest of its size bytes.
Marshal(e) == IF e = NoEvent THEN << >> ELSE << Code(e) >> \o Zeros(e.size - 1)

\* A frame as the writer appends it: the length of the body, then the body.
encodeDelimitedMessage(e) == PutUvarint(Len(Marshal(e))) \o Marshal(e)

RECURSIVE Encode(_)
Encode(es) ==
    IF es = << >> THEN << >> ELSE encodeDelimitedMessage(Head(es)) \o Encode(Tail(es))

\* proto.Unmarshal of a frame body: the event, or << >> when the bytes are not
\* the encoding of an event.
Unmarshal(b) ==
    IF b = << >> THEN << NoEvent >>
    ELSE IF b[1] \in 1..Len(EventTable) /\ Marshal(EventTable[b[1]]) = b
         THEN << EventTable[b[1]] >>
         ELSE << >>

\* The length prefix as UnmarshalFrom collects it: bytes are read one at a time
\* up to MaxVarintLen64, stopping behind the first byte without the high bit
\* or at the end of the available bytes.
RECURSIVE SizeBuf(_, _)
SizeBuf(avail, i) ==
    IF i > MaxVarintLen64 \/ i > Len(avail) THEN << >>
    ELSE IF avail[i] < 128 THEN << avail[i] >>
         ELSE << avail[i] >> \o SizeBuf(avail, i + 1)

RECURSIVE VarintValue(_)
VarintValue(buf) ==
    IF buf = << >> THEN 0 ELSE (Head(buf) % 128) + 128 * VarintValue(Tail(buf))

\* protowire.ConsumeVarint: the value and the number of bytes taken, n < 0 when
\* the bytes end inside the varint (-1) or the varint overflows 64 bits (-3).
ConsumeVarint(buf) ==
    IF buf = << >> \/ buf[Len(buf)] >= 128
      THEN [v |-> 0, n |-> IF Len(buf) >= MaxVarintLen64 THEN 0 - 3 ELSE 0 - 1]
    ELSE IF Len(buf) = MaxVarintLen64 /\ buf[Len(buf)] > 1
      THEN [v |-> 0, n |-> 0 - 3]
    ELSE [v |-> VarintValue(buf), n |-> Len(buf)]

\* protodelim.UnmarshalFrom(r.reader, event) on the bytes avail that the file
\* holds behind the reader's position.  res is "ok" (err == nil), "eof"
\* (io.EOF: no byte at all could be read) or "err" (any other error, among
\* them io.ErrUnexpectedEOF for a length prefix or a body that ends early);
\* used is the number of bytes the call took from the reader.
UnmarshalFrom(avail) ==
    LET sizeBuf == SizeBuf(avail, 1)
        cv      == ConsumeVarint(sizeBuf)
        body    == SubSeq(avail, cv.n + 1, cv.n + cv.v)
        ev      == Unmarshal(body)
    IN  IF avail = << >>
          THEN [res |-> "eof", used |-> 0, event |-> NoEvent]
        ELSE IF cv.n < 0
          THEN [res |-> "err", used |-> Len(sizeBuf), event |-> NoEvent]
        ELSE IF Len(avail) < cv.n + cv.v
          THEN [res |-> "err", used |-> Len(avail), event |-> NoEvent]
        ELSE IF ev = << >>
          THEN [res |-> "err", used |-> cv.n + cv.v, event |-> NoEvent]
        ELSE [res |-> "ok", used |-> cv.n + cv.v, event |-> ev[1]]

\* -------------------------------------------------------------- aggregator
\* &buildStats{}: every field at its zero value
buildStats ==
    [buildStarted |-> FALSE, buildFinished |-> FALSE, startTime |-> ZeroTime,
     endTime |-> ZeroTime, uuid |-> "", command |-> "", exitCode |-> 0,
     targetsBuilt |-> 0, targetsFailed |-> 0, testsRun |-> 0, testsPassed |-> 0,
     testsFailed |-> 0, actionsExecuted |-> 0, progressEvents |-> 0]

\* getTargetLabel without the case of TestSummary
getTargetLabel_NoTestSummary(e) ==
    IF e.idKind \in {"TargetConfigured", "TargetCompleted", "TestResult"}
      THEN e.label
      ELSE "<unknown>"

getTargetLabel(e) ==
    IF e.idKind \in {"TargetConfigured", "TargetCompleted", "TestResult", "TestSummary"}
      THEN e.label
      ELSE "<unknown>"

\* processStarted that starts the statistics of the build afresh
processStarted_ClearsFinished(e, s) ==
    [s EXCEPT !.buildStarted = TRUE, !.buildFinished = FALSE, !.uuid = e.uuid,
              !.command = e.command,
              !.startTime = IF e.hasStartTime THEN e.startTime ELSE @]

\* The Started case of processEvent.
processStarted(e, s) ==
    [s EXCEPT !.buildStarted = TRUE, !.uuid = e.uuid, !.command = e.command,
              !.startTime = IF e.hasStartTime THEN e.startTime ELSE @]

\* The Finished case of processEvent up to the read of p.Finished.ExitCode.Code
processFinishedFlag(e, s) == [s EXCEPT !.buildFinished = TRUE]

\* The Finished case of processEvent behind the read of p.Finished.ExitCode.Code
processFinishedRest(e, s) ==
    [s EXCEPT !.exitCode = e.exitCode,
              !.endTime = IF e.hasFinishTime THEN e.finishTime ELSE @]

\* processCompleted with the test of success turned round
processCompleted_Inverted(e, s) ==
    [s EXCEPT !.targetsBuilt = @ + 1,
              !.targetsFailed = IF e.success THEN @ + 1 ELSE @]

\* processCompleted that counts only the targets that succeeded as built
processCompleted_NoBuiltOnFailure(e, s) ==
    [s EXCEPT !.targetsBuilt = IF e.success THEN @ + 1 ELSE @,
              !.targetsFailed = IF e.success THEN @ ELSE @ + 1]

processCompleted(e, s) ==
    [s EXCEPT !.targetsBuilt = @ + 1,
              !.targetsFailed = IF e.success THEN @ ELSE @ + 1]

\* processProgress that counts every progress event twice
processProgress_CountsTwice(e, s) == [s EXCEPT !.progressEvents = @ + 2]

\* The Progress case of processEvent.
processProgress(e, s) == [s EXCEPT !.progressEvents = @ + 1]

\* processAction that counts only the actions that succeeded
processAction_OnlySuccess(e, s) ==
    [s EXCEPT !.actionsExecuted = IF e.success THEN @ + 1 ELSE @]

\* The Action case of processEvent.
processAction(e, s) == [s EXCEPT !.actionsExecuted = @ + 1]

\* processTestResult that counts the result of a test as a test that ran
processTestResult_CountsRun(e, s) == [s EXCEPT !.testsRun = @ + 1]

\* The TestResult case of processEvent: a line is printed, nothing is counted.
processTestResult(e, s) == s

\* processTestSummary that does not count the tests that failed
processTestSummary_FailedNotCounted(e, s) ==
    [s EXCEPT !.testsRun = @ + 1,
              !.testsPassed = IF e.status = "PASSED" THEN @ + 1 ELSE @]

\* processTestSummary that takes a flaky test as passed
processTestSummary_FlakyPasses(e, s) ==
    [s EXCEPT !.testsRun = @ + 1,
              !.testsPassed = IF e.status \in {"PASSED", "FLAKY"} THEN @ + 1 ELSE @,
              !.testsFailed = IF e.status \in {"PASSED", "FLAKY"} THEN @ ELSE @ + 1]

processTestSummary(e, s) ==
    [s EXCEPT !.testsRun = @ + 1,
              !.testsPassed = IF e.status = "PASSED" THEN @ + 1 ELSE @,
              !.testsFailed = IF e.status = "PASSED" THEN @ ELSE @ + 1]

\* p.Finished.ExitCode.Code reads a field through the pointer ExitCode: with
\* no exit code in the event the pointer is nil and the read panics.
Panics(e) == e.kind = "Finished" /\ ~e.hasExitCode

\* processEvent(event, stats): the statistics behind the call, whether the call
\* panicked, and the lines it printed.
processEvent(e, s) ==
    LET label == getTargetLabel(e)
    IN  CASE e.kind = "Started" ->
               [stats |-> processStarted(e, s), panic |-> FALSE,
                lines |-> << << "Build started", e.command, e.uuid >> >>]
          [] e.kind = "Finished" ->
               IF Panics(e)
                 THEN [stats |-> processFinishedFlag(e, s), panic |-> TRUE,
                       lines |-> << >>]
                 ELSE [stats |-> processFinishedRest(e, processFinishedFlag(e, s)),
                       panic |-> FALSE,
                       lines |-> << << "Build finished", ToString(e.exitCode) >> >>]
          [] e.kind = "Progress" ->
               [stats |-> processProgress(e, s), panic |-> FALSE,
                lines |-> << >>]
          [] e.kind = "Configured" ->
               [stats |-> s, panic |-> FALSE,
                lines |-> << << "Target configured", label >> >>]
          [] e.kind = "Completed" ->
               [stats |-> processCompleted(e, s), panic |-> FALSE,
                lines |-> << << IF e.success THEN "Target completed"
                                             ELSE "Target failed", label >> >>]
          [] e.kind = "Action" ->
               [stats |-> processAction(e, s), panic |-> FALSE,
                lines |-> IF e.success THEN << >> ELSE << << "Action failed" >> >>]
          [] e.kind = "TestResult" ->
               [stats |-> processTestResult(e, s), panic |-> FALSE,
                lines |-> << << "Test result", label, e.status >> >>]
          [] e.kind = "TestSummary" ->
               [stats |-> processTestSummary(e, s), panic |-> FALSE,
                lines |-> << IF e.status = "PASSED"
                               THEN << "Test passed", label >>
                               ELSE << "Test failed", label, e.status >> >>]
          [] e.kind = "Aborted" ->
               [stats |-> s, panic |-> FALSE, lines |-> << << "Aborted" >> >>]
          [] e.kind = "Configuration" ->
               [stats |-> s, panic |-> FALSE, lines |-> << << "Configuration" >> >>]
          [] e.kind = "BuildToolLogs" ->
               [stats |-> s, panic |-> FALSE,
                lines |-> << << "Build tool logs available" >> >>]
          [] e.kind = "BuildMetrics" ->
               [stats |-> s, panic |-> FALSE,
                lines |-> IF e.hasActionSummary THEN << << "Metrics" >> >> ELSE << >>]
          [] OTHER ->
               [stats |-> s, panic |-> FALSE, lines |-> << >>]

\* printsDuration without the test of buildStarted
printsDuration_FinishedOnly(s) == s.buildFinished

\* Whether printSummary prints the Duration line.
printsDuration(s) == s.buildStarted /\ s.buildFinished

\* The statistics streamBEP and printSummary print.  A line that is printed
\* only under a condition is << >> when it is left out.
printSummary(s, total) ==
    [total    |-> total,
     uuid     |-> IF s.uuid # "" THEN << s.uuid >> ELSE << >>,
     command  |-> IF s.command # "" THEN << s.command >> ELSE << >>,
     duration |-> IF printsDuration(s) THEN << s.endTime - s.startTime >> ELSE << >>,
     exitCode |-> s.exitCode,
     actions  |-> s.actionsExecuted,
     built    |-> s.targetsBuilt,
     failed   |-> s.targetsFailed,
     tests    |-> IF s.testsRun > 0
                    THEN << s.testsPassed, s.testsFailed, s.testsRun >> ELSE << >>,
     progress |-> s.progressEvents]

\* ------------------------------------------------------------------ inputs
\* The events the short frame sequences are made of.
Alphabet ==
    { Progress, Last(NoEvent), Started("Y", "test", FALSE, ZeroTime),
      Finished(TRUE, 3, TRUE, 9), Finished(FALSE, 0, TRUE, 9) }

RECURSIVE SeqsUpTo(_, _)
SeqsUpTo(S, n) ==
    IF n = 0 THEN { << >> }
    ELSE LET shorter == SeqsUpTo(S, n - 1)
         IN  shorter \cup { Append(q, e) : q \in shorter, e \in S }

\* A whole build: started, two progress events, a target, a test, finished, and
\* an empty last event.
BuildScenario ==
    << Started("X", "build", TRUE, 5), Progress, Progress, Completed("//a:b", TRUE),
       TestSummary("//t:t", "PASSED"), Finished(TRUE, 0, FALSE, ZeroTime),
       Last(NoEvent) >>

\* Events whose Id is absent, of another kind, or of a kind with a label, and
\* a target and a test that failed.
LabelScenario ==
    << NoId(Completed("", TRUE)), ActionId(Configured(""), "//a:b"),
       TestResult("//t:t", "PASSED"), TestSummary("//t:u", "FAILED"),
       Completed("//a:c", FALSE) >>

\* Actions and progress events among others, and the same events in another
\* order.
CounterScenario ==
    << Action(TRUE), Progress, TestSummary("//t:v", "FLAKY"), Action(FALSE),
       Configured("//a:b") >>

CounterScenarioPermuted ==
    << Progress, Configured("//a:b"), Action(FALSE), TestSummary("//t:v", "FLAKY"),
       Action(TRUE) >>

\* Events that are only printed, and one the program does not know.
NoOpScenario ==
    << Aborted, Configuration, BuildToolLogs, BuildMetrics(TRUE), BuildMetrics(FALSE),
       OnlyId >>

\* Three tests: one passed, one failed, one flaky.
TestsScenario ==
    << TestSummary("//t:t", "PASSED"), TestSummary("//t:u", "FAILED"),
       TestSummary("//t:v", "FLAKY") >>

Scenarios ==
    { BuildScenario, LabelScenario, NoOpScenario, TestsScenario, CounterScenario, CounterScenarioPermuted,
      << BigProgress, Last(Progress) >>,
      << NoEvent, Started("X", "build", TRUE, 5), Finished(TRUE, 1, TRUE, 2) >> }

Inputs == SeqsUpTo(Alphabet, MaxFrames) \cup Scenarios

\* A length prefix that is no varint: ten bytes that all say another follows.
OverlongPrefix == [i \in 1..MaxVarintLen64 |-> 128]

\* A frame of one byte that is not the encoding of an event.
BadBody == << 1, 255 >>

\* The malformed bytes that may follow the frames fs in the file.
Garbled(fs) ==
    IF Len(fs) <= 1 THEN { << >>, OverlongPrefix, BadBody } ELSE { << >> }

\* ------------------------------------------------------------------- state
VARIABLES
    frames,       \* the events the writer appends to the file, in order
    garbage,      \* malformed bytes the writer appends behind the frames
    follow,       \* opts.follow
    fileExists,   \* whether the file has been created
    written,      \* the number of bytes the file holds
    pos,          \* the number of bytes taken from r.reader
    pc,           \* the position of streamBEP
    now,          \* time.Now()
    waitDeadline, \* deadline of waitForFile
    runStart,     \* startTime of streamBEP
    rdStart,      \* startTime of readDelimitedMessage
    event,        \* the event readDelimitedMessage returned
    eventCount,   \* eventCount of streamBEP
    stats,        \* *stats of streamBEP
    out,          \* the lines processEvent and the loop of streamBEP printed
    summaries,    \* the statistics printed behind the loop
    result,       \* "running", "ok" (return nil), "error" or "panic"
    reason,       \* why the loop or the run ended
    wholeAtOpen   \* history: the file held every frame, and nothing else, when
                  \* it was opened

vars ==
    << frames, garbage, follow, fileExists, written, pos, pc, now, waitDeadline, runStart,
       rdStart, event, eventCount, stats, out, summaries, result, reason,
       wholeAtOpen >>

\* the bytes the writer appends in the course of the build
Stream == Encode(frames) \o garbage

\* the bytes of the file behind the position of r.reader
Avail == SubSeq(Stream, pos + 1, written)

Init ==
    /\ frames \in Inputs
    /\ garbage \in Garbled(frames)
    /\ follow \in BOOLEAN
    /\ fileExists = FALSE
    /\ written = 0
    /\ pos = 0
    /\ pc = "start"
    /\ now = 0
    /\ waitDeadline = 0
    /\ runStart = 0
    /\ rdStart = 0
    /\ event = NoEvent
    /\ eventCount = 0
    /\ stats = buildStats
    /\ out = << >>
    /\ summaries = << >>
    /\ result = "running"
    /\ reason = "none"
    /\ wholeAtOpen = FALSE

\* ------------------------------------------------------------------ writer
\* The build tool creates the file ...
WriterCreate ==
    /\ pc # "done"
    /\ ~fileExists
    /\ fileExists' = TRUE
    /\ UNCHANGED << frames, garbage, follow, written, pos, pc, now, waitDeadline, runStart,
                    rdStart, event, eventCount, stats, out, summaries, result, reason,
                    wholeAtOpen >>

\* ... and appends to it, any number of bytes at a time.
WriterAppend ==
    /\ pc # "done"
    /\ fileExists
    /\ \E k \in 1..(Len(Stream) - written) : written' = written + k
    /\ UNCHANGED << frames, garbage, follow, fileExists, pos, pc, now, waitDeadline, runStart,
                    rdStart, event, eventCount, stats, out, summaries, result, reason,
                    wholeAtOpen >>

\* ------------------------------------------------------------------ reader
\* streamBEP up to the call of waitForFile or os.Open
streamBEP_Open ==
    /\ pc = "start"
    /\ IF follow
         THEN /\ waitDeadline' = now + Timeout
              /\ pc' = "wait"
              /\ UNCHANGED << result, reason >>
         ELSE /\ UNCHANGED waitDeadline
              /\ IF fileExists
                   THEN pc' = "begin" /\ UNCHANGED << result, reason >>
                   ELSE pc' = "done" /\ result' = "error" /\ reason' = "open"
    /\ wholeAtOpen' = (~follow /\ fileExists /\ written = Len(Stream) /\ garbage = << >>)
    /\ UNCHANGED << frames, garbage, follow, fileExists, written, pos, now, runStart, rdStart,
                    event, eventCount, stats, out, summaries >>

\* One turn of the loop of waitForFile.
waitForFile ==
    /\ pc = "wait"
    /\ IF fileExists
         THEN pc' = "begin" /\ UNCHANGED << now, result, reason >>
         ELSE IF now > waitDeadline
           THEN pc' = "done" /\ result' = "error" /\ reason' = "wait timeout"
                /\ UNCHANGED now
           ELSE now' = now + WaitPoll /\ UNCHANGED << pc, result, reason >>
    /\ wholeAtOpen' = (fileExists /\ written = Len(Stream) /\ garbage = << >>)
    /\ UNCHANGED << frames, garbage, follow, fileExists, written, pos, waitDeadline, runStart,
                    rdStart, event, eventCount, stats, out, summaries >>

\* streamBEP from newStreamReader to the head of the loop
streamBEP_Begin ==
    /\ pc = "begin"
    /\ pos' = 0
    /\ eventCount' = 0
    /\ stats' = buildStats
    /\ runStart' = now
    /\ pc' = "call"
    /\ UNCHANGED << frames, garbage, follow, fileExists, written, now, waitDeadline, rdStart,
                    event, out, summaries, result, reason, wholeAtOpen >>

\* The head of readDelimitedMessage.
readDelimitedMessage_Enter ==
    /\ pc = "call"
    /\ rdStart' = now
    /\ pc' = "unmarshal"
    /\ UNCHANGED << frames, garbage, follow, fileExists, written, pos, now, waitDeadline,
                    runStart, event, eventCount, stats, out, summaries, result, reason,
                    wholeAtOpen >>

\* readStep without the test err != io.EOF: every error is taken as io.EOF
readStep_ErrorAsEOF(res, fol, elapsed) ==
    IF res = "ok" THEN "event"
    ELSE IF ~fol THEN "eof"
    ELSE IF elapsed > Timeout THEN "eof"
    ELSE "sleep"

\* readStep with the timeout handed on as an error instead of io.EOF
readStep_TimeoutIsError(res, fol, elapsed) ==
    IF res = "ok" THEN "event"
    ELSE IF res # "eof" THEN "error"
    ELSE IF ~fol THEN "eof"
    ELSE IF elapsed > Timeout THEN "error"
    ELSE "sleep"

\* readStep that hands the event on although UnmarshalFrom failed
readStep_ErrorAsEvent(res, fol, elapsed) ==
    IF res = "ok" \/ res # "eof" THEN "event"
    ELSE IF ~fol THEN "eof"
    ELSE IF elapsed > Timeout THEN "eof"
    ELSE "sleep"

\* readStep that returns io.EOF in follow mode without waiting for data
readStep_EOFWithoutWait(res, fol, elapsed) ==
    IF res = "ok" THEN "event"
    ELSE IF res # "eof" THEN "error"
    ELSE "eof"

\* readStep that takes the end of the file in one-shot mode as an error
readStep_EOFIsError(res, fol, elapsed) ==
    IF res = "ok" THEN "event"
    ELSE IF res # "eof" THEN "error"
    ELSE IF ~fol THEN "error"
    ELSE IF elapsed > Timeout THEN "eof"
    ELSE "sleep"

\* What readDelimitedMessage does with the result of UnmarshalFrom: return the
\* event, return an error, return io.EOF, or sleep and call UnmarshalFrom again.
readStep(res, fol, elapsed) ==
    IF res = "ok" THEN "event"
    ELSE IF res # "eof" THEN "error"
    ELSE IF ~fol THEN "eof"
    ELSE IF elapsed > Timeout THEN "eof"
    ELSE "sleep"

\* One turn of the loop of readDelimitedMessage.
readDelimitedMessage ==
    /\ pc = "unmarshal"
    /\ LET r    == UnmarshalFrom(Avail)
           step == readStep(r.res, follow, now - rdStart)
       IN  /\ pos' = pos + r.used
           /\ event' = IF step = "event" THEN r.event ELSE event
           /\ now' = IF step = "sleep" THEN now + PollInterval ELSE now
           /\ pc' = CASE step = "event" -> "process"
                      [] step = "error" -> "done"
                      [] step = "eof"   -> "eof"
                      [] OTHER          -> pc
           /\ result' = IF step = "error" THEN "error" ELSE result
           /\ reason' = IF step = "error" THEN "read" ELSE reason
    /\ UNCHANGED << frames, garbage, follow, fileExists, written, waitDeadline, runStart,
                    rdStart, eventCount, stats, out, summaries, wholeAtOpen >>

\* loopRetries without the test of opts.follow
loopRetries_IgnoresMode(fol, elapsed) == elapsed < Timeout

\* Whether streamBEP sleeps and reads again at an io.EOF of readDelimitedMessage.
loopRetries(fol, elapsed) == fol /\ elapsed < Timeout

\* streamBEP at err == io.EOF
streamBEP_EOF ==
    /\ pc = "eof"
    /\ IF loopRetries(follow, now - runStart)
         THEN now' = now + PollInterval /\ pc' = "call" /\ UNCHANGED reason
         ELSE pc' = "summary" /\ reason' = "eof" /\ UNCHANGED now
    /\ UNCHANGED << frames, garbage, follow, fileExists, written, pos, waitDeadline, runStart,
                    rdStart, event, eventCount, stats, out, summaries, result,
                    wholeAtOpen >>

\* afterEvent without the break at the last message
afterEvent_NoBreak(e) == "call"

\* Where streamBEP goes behind processEvent: out of the loop at the last
\* message, to the next read otherwise.
\* afterEvent that takes an event without payload as the end of the stream
afterEvent_StopsOnEmpty(e) == IF e.last \/ e.kind = "None" THEN "summary" ELSE "call"

afterEvent(e) == IF e.last THEN "summary" ELSE "call"

\* streamBEP from eventCount++ to the end of the turn of the loop
streamBEP_Process ==
    /\ pc = "process"
    /\ eventCount' = eventCount + 1
    /\ LET r == processEvent(event, stats)
           to == afterEvent(event)
       IN  /\ stats' = r.stats
           /\ IF r.panic
                THEN /\ out' = out \o r.lines
                     /\ pc' = "done"
                     /\ result' = "panic"
                     /\ reason' = "nil pointer"
                ELSE /\ out' = out \o r.lines \o
                               (IF to = "summary"
                                  THEN << << "[Last message received]" >> >>
                                  ELSE << >>)
                     /\ pc' = to
                     /\ reason' = IF to = "summary" THEN "last" ELSE reason
                     /\ UNCHANGED result
    /\ UNCHANGED << frames, garbage, follow, fileExists, written, pos, now, waitDeadline,
                    runStart, rdStart, event, summaries, wholeAtOpen >>

\* emitSummary that prints the statistics only when events were read
emitSummary_OnlyWithEvents(printed, s, total) ==
    IF total = 0 THEN printed ELSE Append(printed, printSummary(s, total))

\* The statistics printed so far and those streamBEP prints behind the loop.
emitSummary(printed, s, total) == Append(printed, printSummary(s, total))

\* streamBEP behind the loop
streamBEP_Summary ==
    /\ pc = "summary"
    /\ summaries' = emitSummary(summaries, stats, eventCount)
    /\ result' = "ok"
    /\ pc' = "done"
    /\ UNCHANGED << frames, garbage, follow, fileExists, written, pos, now, waitDeadline,
                    runStart, rdStart, event, eventCount, stats, out, reason,
                    wholeAtOpen >>

Next ==
    \/ WriterCreate
    \/ WriterAppend
    \/ streamBEP_Open
    \/ waitForFile
    \/ streamBEP_Begin
    \/ readDelimitedMessage_Enter
    \/ readDelimitedMessage
    \/ streamBEP_EOF
    \/ streamBEP_Process
    \/ streamBEP_Summary

Spec == Init /\ [][Next]_vars

TypeOK ==
    /\ pc \in {"start", "wait", "begin", "call", "unmarshal", "eof", "process",
               "summary", "done"}
    /\ result \in {"running", "ok", "error", "panic"}
    /\ written \in 0..Len(Stream)
    /\ pos \in 0..written

\* ------------------------------------------------- what the frames promise
\* the position in the file behind the first k frames
EndOfFrame(k) == Len(Encode(SubSeq(frames, 1, k)))

\* the frames up to and with the first one that carries LastMessage
UpToLast ==
    IF \E i \in 1..Len(frames) : frames[i].last
      THEN SubSeq(frames, 1, CHOOSE i \in 1..Len(frames) :
                               /\ frames[i].last
                               /\ \A j \in 1..(i - 1) : ~frames[j].last)
      ELSE frames

\* the statistics behind the events es, processed in order from s
RECURSIVE StatsAfter(_, _)
StatsAfter(es, s) ==
    IF es = << >> THEN s ELSE StatsAfter(Tail(es), processEvent(Head(es), s).stats)

Saw(kind) == \E i \in 1..eventCount : frames[i].kind = kind

\* the reader stands in front of a frame of which the file holds only a part
PartialFrame ==
    \E k \in 1..Len(frames) :
        /\ pos = EndOfFrame(k - 1)
        /\ pos < written
        /\ written < EndOfFrame(k)

\* ------------------------------------------------------------------ claims

\* C1: in follow mode a read never ends the run with an error while the
\* timeout has not elapsed: frames that arrive in pieces are waited for.
C1_FollowNeverFailsOnPartialFrame ==
    (follow /\ garbage = << >> /\ result = "error" /\ reason = "read")
        => now - runStart > Timeout

\* C2: a run in follow mode is over no later than the timeout plus one poll
\* interval behind its start, whether or not frames arrive.
C2_RunEndsByDeadline ==
    (follow /\ pc \in {"call", "unmarshal", "eof", "process", "summary", "done"})
        => now - runStart <= Timeout + PollInterval

C4_AllFramesProcessedInOrder ==
    (pc = "done" /\ wholeAtOpen) =>
        /\ result = "ok"
        /\ eventCount = Len(UpToLast)
        /\ stats = StatsAfter(UpToLast, buildStats)

\* C5: in one-shot mode a read that finds only a part of a frame (of its
\* length prefix or of its body) ends the run with an error: no event is
\* returned or counted and the run does not end as at the end of the stream.
C5_TruncatedFrameIsError ==
    [][(pc = "unmarshal" /\ ~follow /\ PartialFrame /\ pc' # pc) =>
           /\ pc' = "done"
           /\ result' = "error"
           /\ reason' = "read"
           /\ eventCount' = eventCount
           /\ stats' = stats
           /\ summaries' = << >>]_vars

C5_Witness ==
    /\ ~follow /\ pc = "done" /\ result = "error" /\ reason = "read"
    /\ Len(frames) = 2
    /\ eventCount = 1 /\ EndOfFrame(1) < written /\ written < EndOfFrame(2)

\* C6: the event with LastMessage is counted and aggregated and the run stops
\* there: nothing behind it is read, counted or aggregated.
C6_StopsAtLastMessage ==
    /\ eventCount <= Len(UpToLast)
    /\ (\E i \in 1..Len(frames) : frames[i].last) => pos <= EndOfFrame(Len(UpToLast))
    /\ reason = "last" =>
           /\ event.last
           /\ pc \in {"summary", "done"}
           /\ eventCount = Len(UpToLast)
           /\ pos = EndOfFrame(eventCount)
           /\ stats = StatsAfter(UpToLast, buildStats)

C6_Witness ==
    /\ pc = "done" /\ reason = "last" /\ result = "ok"
    /\ eventCount < Len(frames) /\ pos < written

\* C7: the build scenario, fed whole, gives the statistics of the
\* specification and ends at the last message.
C7_BuildScenarioSummary ==
    (frames = BuildScenario /\ pc = "done" /\ eventCount = Len(BuildScenario)) =>
        /\ reason = "last"
        /\ result = "ok"
        /\ Len(summaries) = 1
        /\ summaries[1].uuid = << "X" >>
        /\ summaries[1].command = << "build" >>
        /\ summaries[1].built = 1
        /\ summaries[1].failed = 0
        /\ summaries[1].tests = << 1, 0, 1 >>
        /\ summaries[1].progress = 2
        /\ summaries[1].actions = 0
        /\ summaries[1].exitCode = 0

C7_Witness ==
    frames = BuildScenario /\ pc = "done" /\ eventCount = Len(BuildScenario) /\ follow

\* C8 as stated: a duration and an exit code are in the statistics only when
\* both a Started and a Finished event were processed.
C8_DerivedFieldsNeedBothEvents ==
    (printsDuration(stats) \/ stats.exitCode # 0) => (Saw("Started") /\ Saw("Finished"))

\* C8 as amended: the duration is printed only when both a Started and a
\* Finished event were processed, and without a Started event buildStarted
\* stays false; the exit code is that of the last Finished event that carried
\* one, whether or not a Started event was processed.
C8_DurationNeedsBothEvents ==
    /\ printsDuration(stats) => (Saw("Started") /\ Saw("Finished"))
    /\ ~Saw("Started") => ~stats.buildStarted
    /\ stats.exitCode # 0 => Saw("Finished")
    /\ \A i \in 1..Len(summaries) :
           summaries[i].duration # << >> => (Saw("Started") /\ Saw("Finished"))

C8_Witness ==
    /\ pc = "done" /\ result = "ok" /\ Saw("Finished") /\ ~Saw("Started")
    /\ ~stats.buildStarted /\ stats.exitCode = 3
    /\ summaries[1].duration = << >> /\ summaries[1].exitCode = 3

\* C9: a duration is printed only if a start time and an end time were both
\* recorded from the events.
C9_DurationNeedsBothTimes ==
    \A i \in 1..Len(summaries) :
        summaries[i].duration # << >> =>
            /\ \E j \in 1..eventCount : frames[j].kind = "Started" /\ frames[j].hasStartTime
            /\ \E j \in 1..eventCount : frames[j].kind = "Finished" /\ frames[j].hasFinishTime

\* C10: processEvent never fails, whatever the event holds or lacks.
C10_ProcessEventNeverFails == result # "panic"

\* C11 as stated: a run in follow mode that ends because a deadline was
\* exceeded returns no error and has printed the statistics.
C11_DeadlineIsNeverFatal ==
    (follow /\ pc = "done" /\ reason \in {"eof", "wait timeout"}) =>
        (result = "ok" /\ Len(summaries) = 1)

\* C11 as amended: when the timeout is exceeded while reading, the run in
\* follow mode ends without an error and prints the statistics gathered so far;
\* a read error comes only from bytes that were read, never from the timeout;
\* when the timeout is exceeded while waiting for the file, the run ends with
\* an error and prints no statistics.
C11_ReadDeadlineIsNotFatal ==
    /\ (follow /\ pc = "done" /\ reason = "eof") =>
           /\ result = "ok"
           /\ summaries = << printSummary(stats, eventCount) >>
           /\ now - rdStart > Timeout
    /\ (follow /\ result = "error" /\ reason = "read") => pos > EndOfFrame(eventCount)
    /\ reason = "wait timeout" =>
           /\ follow /\ result = "error" /\ summaries = << >>
           /\ now > waitDeadline

C11_Witness ==
    /\ follow /\ pc = "done" /\ reason = "eof" /\ result = "ok"
    /\ eventCount = 2 /\ stats.progressEvents = 2 /\ summaries[1].progress = 2

\* the reader stands in front of bytes that cannot become a frame: malformed
\* bytes that are all in the file or, in one-shot mode, a part of a frame
Corrupt ==
    \/ garbage # << >> /\ pos = EndOfFrame(Len(frames)) /\ written = Len(Stream)
    \/ ~follow /\ PartialFrame

\* C12: a read of corrupt bytes ends the run with an error; the frame that
\* failed is not counted and changes neither the statistics nor the output.
C12_CorruptReadIsFatal ==
    [][(pc = "unmarshal" /\ Corrupt /\ pc' # pc) =>
           /\ pc' = "done"
           /\ result' = "error"
           /\ reason' = "read"
           /\ eventCount' = eventCount
           /\ stats' = stats
           /\ out' = out
           /\ summaries' = << >>]_vars

C12_Witness ==
    /\ pc = "done" /\ result = "error" /\ reason = "read"
    /\ garbage = OverlongPrefix /\ pos = Len(Stream)
    /\ eventCount = 1 /\ stats.progressEvents = 1

\* C13: a run in follow mode ends at the timeout at the latest, however the
\* frames arrive: once the timeout and one poll interval have passed since
\* the start of the run, no further event is processed.
C13_NoEventAfterTimeout ==
    [][(follow /\ now - runStart > Timeout + PollInterval) =>
           eventCount' = eventCount]_vars

\* C14: the time spent waiting for the file counts against the one deadline
\* of the run: a run in follow mode that has read no byte is over no later
\* than the timeout plus one poll interval behind the call of waitForFile.
C14_WaitCountsAgainstDeadline ==
    (follow /\ pc \notin {"start", "done"} /\ pos = 0) =>
        now - (waitDeadline - Timeout) <= Timeout + PollInterval

\* streamBEP processes an event of the kind k in this step
Processes(k) == pc = "process" /\ pc' # pc /\ event.kind = k

\* C15: the label printed for a Configured, Completed, TestResult or
\* TestSummary event is the label of its Id when the Id is of the kind
\* TargetConfigured, TargetCompleted, TestResult or TestSummary, and
\* "<unknown>" when the Id is absent or of another kind; the call never fails.
C15_LabelFromKnownIdKinds ==
    [][(pc = "process" /\ pc' # pc /\
        event.kind \in {"Configured", "Completed", "TestResult", "TestSummary"}) =>
           /\ result' # "panic"
           /\ Len(out') > Len(out)
           /\ out'[Len(out) + 1][2] =
                  CASE event.idKind = "TargetConfigured" -> event.label
                    [] event.idKind = "TargetCompleted"  -> event.label
                    [] event.idKind = "TestResult"       -> event.label
                    [] event.idKind = "TestSummary"      -> event.label
                    [] OTHER                             -> "<unknown>"]_vars

C15_Witness ==
    /\ frames = LabelScenario /\ eventCount = 4
    /\ out[1] = << "Target completed", "<unknown>" >>
    /\ out[2] = << "Target configured", "<unknown>" >>
    /\ out[3] = << "Test result", "//t:t", "PASSED" >>
    /\ out[4] = << "Test failed", "//t:u", "FAILED" >>

\* C16: a Completed event adds one to targetsBuilt, adds one to targetsFailed
\* exactly when it did not succeed, and changes nothing else of the statistics.
C16_CompletedCountsTargets ==
    [][Processes("Completed") =>
           stats' = [stats EXCEPT
                       !.targetsBuilt = @ + 1,
                       !.targetsFailed = IF event.success THEN @ ELSE @ + 1]]_vars

C16_Witness ==
    /\ frames = LabelScenario /\ eventCount = 5
    /\ stats.targetsBuilt = 2 /\ stats.targetsFailed = 1

\* C17: a TestSummary event adds one to testsRun and one to testsPassed when
\* its status is PASSED, one to testsFailed for every other status, and
\* changes nothing else of the statistics.
C17_TestSummaryCountsTests ==
    [][Processes("TestSummary") =>
           /\ stats'.testsRun = stats.testsRun + 1
           /\ event.status = "PASSED" =>
                  /\ stats'.testsPassed = stats.testsPassed + 1
                  /\ stats'.testsFailed = stats.testsFailed
           /\ event.status # "PASSED" =>
                  /\ stats'.testsPassed = stats.testsPassed
                  /\ stats'.testsFailed = stats.testsFailed + 1
           /\ \A f \in DOMAIN stats \ {"testsRun", "testsPassed", "testsFailed"} :
                  stats'[f] = stats[f]]_vars

C17_Witness ==
    /\ frames = CounterScenario /\ eventCount >= 3
    /\ stats.testsRun = 1 /\ stats.testsPassed = 0 /\ stats.testsFailed = 1

\* C18: a Started event sets buildStarted and records its uuid, its command
\* and the start time it carries; a Finished event sets buildFinished and
\* records its exit code and the end time it carries; neither changes
\* anything else of the statistics.
C18_StartedAndFinishedRecord ==
    [][/\ Processes("Started") =>
              stats' = [stats EXCEPT
                          !.buildStarted = TRUE,
                          !.uuid = event.uuid,
                          !.command = event.command,
                          !.startTime = IF event.hasStartTime
                                          THEN event.startTime ELSE @]
       /\ Processes("Finished") =>
              stats' = [stats EXCEPT
                          !.buildFinished = TRUE,
                          !.exitCode = IF event.hasExitCode THEN event.exitCode ELSE @,
                          !.endTime = IF event.hasFinishTime
                                        THEN event.finishTime ELSE @]]_vars

\* the number of events of the kind k among es
RECURSIVE CountKind(_, _)
CountKind(es, k) ==
    IF es = << >> THEN 0
    ELSE (IF Head(es).kind = k THEN 1 ELSE 0) + CountKind(Tail(es), k)

\* the events es in the order p
Permuted(es, p) == [i \in 1..Len(es) |-> es[p[i]]]

\* C19: progressEvents is the number of Progress events processed and
\* actionsExecuted the number of Action events processed, whether or not they
\* succeeded; every order of the same events gives the same two values.
C19_ProgressAndActionCounts ==
    LET seen == SubSeq(frames, 1, eventCount)
    IN  /\ stats.progressEvents = CountKind(seen, "Progress")
        /\ stats.actionsExecuted = CountKind(seen, "Action")
        /\ (pc = "done" /\ eventCount >= 1) =>
               \A p \in Permutations(1..eventCount) :
                   LET t == StatsAfter(Permuted(seen, p), buildStats)
                   IN  /\ t.progressEvents = stats.progressEvents
                       /\ t.actionsExecuted = stats.actionsExecuted

C19_Witness ==
    /\ frames = CounterScenarioPermuted /\ pc = "done" /\ eventCount = 5
    /\ stats.progressEvents = 1 /\ stats.actionsExecuted = 2
    /\ StatsAfter(CounterScenario, buildStats).actionsExecuted = 2

\* C20: in one-shot mode a read at the end of the file, empty or not, is an
\* end of file and no error: the loop ends, the statistics of the events read
\* so far are printed, and the run returns no error.
C20_OneShotEndOfFileIsNormal ==
    /\ [][(~follow /\ pc = "unmarshal" /\ Avail = << >> /\ pc' # pc) =>
              /\ pc' = "eof"
              /\ result' = "running"
              /\ UNCHANGED << eventCount, stats, out, summaries >>]_vars
    /\ [][(~follow /\ pc = "eof" /\ pc' # pc) => pc' = "summary"]_vars
    /\ []((~follow /\ pc = "done" /\ reason = "eof") =>
              /\ result = "ok"
              /\ summaries = << printSummary(
                                  StatsAfter(SubSeq(frames, 1, eventCount), buildStats),
                                  eventCount) >>)

C20_Witness ==
    /\ ~follow /\ pc = "done" /\ reason = "eof" /\ result = "ok"
    /\ written = Len(Stream) /\ pos = written /\ eventCount = 2
    /\ summaries[1].total = 2

\* the next frame is not in the file as a whole: the reader stands at the end
\* of the bytes written, or in front of a part of a frame
Incomplete == (Avail = << >> /\ pos < Len(Stream)) \/ PartialFrame

\* C21: in follow mode a read that finds the next frame not yet whole, while
\* the timeout has not elapsed, takes no byte from the stream: the next read
\* starts at the same position.
C21_IncompleteReadConsumesNothing ==
    [][(follow /\ pc = "unmarshal" /\ Incomplete /\ now - rdStart <= Timeout) =>
           pos' = pos]_vars

\* C22: in one-shot mode the run never sleeps and never reads again: the
\* clock stands still, every call of readDelimitedMessage returns at its first
\* read, a read that finds no byte ends the loop, and behind the end of the
\* loop nothing is read, whatever is appended to the file afterwards.
C22_OneShotNeverRetries ==
    /\ [](~follow => now = 0)
    /\ [][(~follow /\ pc = "unmarshal" /\ written' = written) => pc' # pc]_vars
    /\ [][(~follow /\ pc = "unmarshal" /\ Avail = << >> /\ written' = written) =>
              pc' = "eof" /\ pos' = pos]_vars
    /\ [][(~follow /\ pc \in {"eof", "summary", "done"}) =>
              pc' \in {"eof", "summary", "done"} /\ pos' = pos]_vars

C22_Witness ==
    /\ ~follow /\ pc = "done" /\ reason = "eof" /\ result = "ok"
    /\ now = 0 /\ pos < written /\ eventCount = 1

\* the kinds of events that processEvent only prints; "None" is an event
\* with no payload or with one the program does not know
PrintedOnly ==
    {"TestResult", "Configured", "Aborted", "Configuration", "BuildToolLogs",
     "BuildMetrics", "None"}

\* C23: a TestResult, Configured, Aborted, Configuration, BuildToolLogs or
\* BuildMetrics event, and an event with an unknown payload or none, leaves
\* every field of the statistics as it was.
C23_PrintedOnlyEventsChangeNothing ==
    [][(pc = "process" /\ pc' # pc /\ event.kind \in PrintedOnly) =>
           /\ stats' = stats
           /\ result' # "panic"]_vars

C23_Witness ==
    /\ frames = NoOpScenario /\ eventCount = 6 /\ pc = "eof"
    /\ stats = buildStats
    /\ out = << << "Aborted" >>, << "Configuration" >>,
                << "Build tool logs available" >>, << "Metrics" >> >>

\* C24: whether the run stops behind an event depends on its LastMessage
\* flag alone: behind an event with the flag the loop ends, behind an event
\* without it the loop goes on, whatever the payload is.
C24_StopDependsOnLastMessageOnly ==
    [][(pc = "process" /\ pc' # pc) =>
           pc' = IF event.last THEN "summary" ELSE "call"]_vars

\* C25: a frame of length zero is a frame: it is decoded to the event with
\* no payload and no LastMessage flag, counted as one event, changes nothing
\* of the statistics, prints nothing, and the loop goes on behind it.
C25_EmptyFrameIsNoOp ==
    /\ [][(pc = "unmarshal" /\ Avail # << >> /\ Head(Avail) = 0 /\ pc' # pc) =>
              /\ pc' = "process"
              /\ event' = NoEvent
              /\ pos' = pos + 1]_vars
    /\ [][(pc = "process" /\ event = NoEvent /\ pc' # pc) =>
              /\ eventCount' = eventCount + 1
              /\ stats' = stats
              /\ out' = out
              /\ pc' = "call"
              /\ result' = "running"]_vars

C25_Witness ==
    /\ Len(frames) = 3 /\ frames[1] = NoEvent /\ eventCount = 3
    /\ stats = StatsAfter(Tail(frames), buildStats)
    /\ stats.buildStarted /\ stats.buildFinished

\* C26: testsPassed and testsFailed add up to testsRun in every state.
C26_TestsAddUp == stats.testsPassed + stats.testsFailed = stats.testsRun

C26_Witness ==
    /\ frames = TestsScenario /\ eventCount = 3
    /\ stats.testsRun = 3 /\ stats.testsPassed = 1 /\ stats.testsFailed = 2

\* the counters of the statistics
Counters ==
    {"targetsBuilt", "targetsFailed", "testsRun", "testsPassed", "testsFailed",
     "actionsExecuted", "progressEvents"}

\* C27: targetsFailed never exceeds targetsBuilt; no counter ever goes down,
\* and buildStarted and buildFinished stay true once they are.
C27_CountersAndFlagsOnlyGrow ==
    /\ [](stats.targetsFailed <= stats.targetsBuilt)
    /\ [][/\ \A f \in Counters : stats'[f] >= stats[f]
          /\ stats.buildStarted => stats'.buildStarted
          /\ stats.buildFinished => stats'.buildFinished]_vars

C27_Witness ==
    /\ Len(frames) = 2 /\ eventCount = 2
    /\ frames[1].kind = "Finished" /\ frames[2].kind = "Started"
    /\ stats.buildStarted /\ stats.buildFinished

\* the number of frames the reader has decoded
Decoded == Cardinality({k \in 1..Len(frames) : EndOfFrame(k) <= pos})

\* C28: eventCount is the number of frames decoded so far (the event the
\* reader has just returned is counted in the next statement, together with
\* its call of processEvent); the total that is printed is eventCount; and
\* progressEvents + targetsBuilt + actionsExecuted + testsRun is at most
\* eventCount.
C28_EventCountIsFramesDecoded ==
    /\ eventCount = Decoded - (IF pc = "process" THEN 1 ELSE 0)
    /\ summaries # << >> => summaries[1].total = eventCount
    /\ stats.progressEvents + stats.targetsBuilt + stats.actionsExecuted
           + stats.testsRun <= eventCount

C28_Witness ==
    /\ frames = BuildScenario /\ pc = "done" /\ ~follow
    /\ eventCount = 7 /\ summaries[1].total = 7
    /\ stats.progressEvents + stats.targetsBuilt + stats.actionsExecuted
           + stats.testsRun = 4

\* C29: in follow mode streamBEP never sleeps and reads again at an io.EOF:
\* the reader returns io.EOF only when its own wait has exceeded the timeout,
\* the time since the start of the run is then at least the timeout, and the
\* io.EOF ends the loop; the clock advances only in waitForFile and in the
\* reader.
C29_LoopRetryIsNeverTaken ==
    /\ []((follow /\ pc = "eof") =>
              /\ now - rdStart > Timeout
              /\ now - runStart >= Timeout
              /\ ~loopRetries(follow, now - runStart))
    /\ [][(follow /\ pc = "eof") => (pc' \in {"eof", "summary"} /\ now' = now)]_vars
    /\ [][now' # now => pc \in {"wait", "unmarshal"}]_vars

C29_Witness ==
    /\ follow /\ pc = "eof" /\ eventCount = 1
    /\ now - rdStart > Timeout /\ rdStart > runStart

====
